---- MODULE Spec2Model ----
(***************************************************************************)
(* The pooled-staking process runner: the poll loop of src/src/index.js    *)
(* (init, lines 40-71), its batch sizer getGasEstimateAndIterations        *)
(* (lines 74-96) and the gas price oracle of src/src/gas-price.js          *)
(* (fetchGasPrices, getGasPrice, getAboveStandardPrice, lines 21-71).      *)
(*                                                                         *)
(* Two earlier forms of the loop are modelled beside it, each as a          *)
(* specification of its own over the same variables: SpecLegacy, the loop  *)
(* of src/src/index.js lines 193-224, which reads the PendingActionsProcessed *)
(* event and awaits estimation and price under Promise.all, and            *)
(* SpecPart001, the loop of src/unnamed/part_001 with its own getGasPrice. *)
(*                                                                         *)
(* Every await of the loop is one action: the action is the continuation   *)
(* that runs when the awaited promise settles, up to the next await.       *)
(*                                                                         *)
(* Numbers.  Iteration counts, gas amounts and nonces are plain integers.  *)
(* The numbers of the price path are JavaScript doubles with fractions     *)
(* (x / 10, Math.floor(..) / 2), so they are held in fixed point, counted  *)
(* in tenths: the double 35.5 is held as 355.  Wei amounts are counted in  *)
(* units of 10^6 wei, so that GWEI_IN_WEI (1e9 wei) is 1000.               *)
(***************************************************************************)
EXTENDS Integers, Sequences, FiniteSets, TLC

\* ------------------------------------------------------------- bounds
\* DEFAULT_ITERATIONS ranges over 1..MaxStart (and 100, the documented case)
MaxStart == 4
\* the feasibility boundary ranges over -1..MaxBoundary (and 50, 100)
MaxBoundary == 3
\* estimateGas calls followed within one cycle
MaxProbes == 9
\* getTransactionCount answers 0..MaxNonce
MaxNonce == 1
\* consecutive idle cycles counted up to MaxIdleStreak
MaxIdleStreak == 2

\* ------------------------------------------------------------- values
\* a declared variable that holds no value yet; a missing property
undefined == -1
\* the result of arithmetic on undefined
NaN == -2
GWEI_IN_WEI == 1000

\* the integer n as a number of the price path (tenths)
Num(n) == n * 10
IsNum(x) == x >= 0
jsAdd(x, y) == IF IsNum(x) /\ IsNum(y) THEN x + y ELSE NaN
\* x * n and x / n for an integer n
jsMul(x, n) == IF IsNum(x) THEN x * n ELSE NaN
jsDiv(x, n) == IF IsNum(x) THEN x \div n ELSE NaN
MathFloor(x) == IF IsNum(x) THEN (x \div 10) * 10 ELSE NaN
MathRound(x) == IF IsNum(x) THEN ((x + 5) \div 10) * 10 ELSE NaN
\* !x for a number or undefined
Falsy(x) == x = 0 \/ x = NaN \/ x = undefined

SPEED ==
  [SAFE_LOW |-> "safeLow", STANDARD |-> "standard", ABOVE_STANDARD |-> "aboveStandard",
   FAST |-> "fast", FASTEST |-> "fastest"]

NoError == "none"

\* ------------------------------------------------------------- the price sources
\* What the request to a price source settles with.  kind "json": the response
\* parsed to a JSON object; "reject": the fetch or r.json() rejected (network
\* error, body that is no JSON); "unbound": the identifier GASNOW_URL, which
\* gas-price.js never declares, does not resolve, so evaluating fetch(GASNOW_URL)
\* raises a ReferenceError before any request is made.
NoData == [fastest |-> undefined, fast |-> undefined, standard |-> undefined, safeLow |-> undefined]
Null == [kind |-> "null", code |-> undefined, data |-> NoData]

\* a GasNow body { code, data: { rapid, fast, standard, slow } }, prices in wei
GasNowBody(code, rapid, fast, standard, slow) ==
  [kind |-> "json", code |-> code,
   data |-> [fastest |-> rapid, fast |-> fast, standard |-> standard, safeLow |-> slow]]
\* an EthGasStation body { fastest, fast, average, safeLow }, prices in gwei * 10
EthGasStationBody(fastest, fast, average, safeLow) ==
  [kind |-> "json", code |-> undefined,
   data |-> [fastest |-> fastest, fast |-> fast, standard |-> average, safeLow |-> safeLow]]
Rejected == [kind |-> "reject", code |-> undefined, data |-> NoData]
Unbound == [kind |-> "unbound", code |-> undefined, data |-> NoData]

\* g gwei (in tenths of a gwei) as a wei amount of a GasNow body
Wei(tenthsOfGwei) == Num((tenthsOfGwei * GWEI_IN_WEI) \div 10)

PrimaryResponses ==
  { GasNowBody(200, Wei(500), Wei(250), Wei(150), Wei(100)),   \* aboveStandard 20
    GasNowBody(200, Wei(600), Wei(405), Wei(303), Wei(200)),   \* floor(70.8) / 2 = 35
    GasNowBody(200, Wei(500), Wei(360), Wei(250), Wei(200)),   \* 61 / 2 = 30.5
    GasNowBody(200, Wei(500), Wei(350), Wei(250), Wei(200)),   \* 30
    GasNowBody(200, Wei(500), undefined, Wei(250), Wei(200)),  \* no fast price
    GasNowBody(200, Wei(9), Wei(4), Wei(3), Wei(2)),           \* floor(0.7) / 2 = 0
    GasNowBody(200, Wei(9), Wei(6), Wei(5), Wei(2)),           \* floor(1.1) / 2 = 0.5
    GasNowBody(500, undefined, undefined, undefined, undefined),
    Rejected,
    Unbound }

FallbackResponses ==
  { EthGasStationBody(Num(600), Num(500), Num(300), Num(100)),  \* aboveStandard 40
    Rejected }

\* to (utils): a promise settled as [result, null] or [null, error]
to(promise) ==
  IF promise.kind = "reject"
  THEN [r |-> Null, e |-> "Error"]
  ELSE [r |-> promise, e |-> NoError]

NoPrices ==
  [fastest |-> undefined, fast |-> undefined, standard |-> undefined,
   safeLow |-> undefined, aboveStandard |-> undefined]
Thrown(error, primaryCalls, fallbackCalls) ==
  [error |-> error, prices |-> NoPrices, value |-> undefined,
   primaryCalls |-> primaryCalls, fallbackCalls |-> fallbackCalls]
Returned(prices, primaryCalls, fallbackCalls) ==
  [error |-> NoError, prices |-> prices, value |-> undefined,
   primaryCalls |-> primaryCalls, fallbackCalls |-> fallbackCalls]

\* a fetchGasPrices that asks EthGasStation first and GasNow only when that fails
fetchGasPricesEthGasStationFirst(gasNow, ethGasStation) ==
  IF ethGasStation.kind = "json"
  THEN Returned([fastest |-> jsDiv(ethGasStation.data.fastest, 10),
                 fast |-> jsDiv(ethGasStation.data.fast, 10),
                 standard |-> jsDiv(ethGasStation.data.standard, 10),
                 safeLow |-> jsDiv(ethGasStation.data.safeLow, 10),
                 aboveStandard |-> undefined], 0, 1)
  ELSE IF gasNow.kind = "json" /\ gasNow.code = 200
  THEN Returned([fastest |-> jsDiv(gasNow.data.fastest, GWEI_IN_WEI),
                 fast |-> jsDiv(gasNow.data.fast, GWEI_IN_WEI),
                 standard |-> jsDiv(gasNow.data.standard, GWEI_IN_WEI),
                 safeLow |-> jsDiv(gasNow.data.safeLow, GWEI_IN_WEI),
                 aboveStandard |-> undefined], 1, 1)
  ELSE Thrown("Gas price fetching failed", 1, 1)

\* fetchGasPrices: the prices in gwei, with the number of requests made to each
\* source.  Destructuring [{ data, code }, ecError] throws a TypeError when the
\* first element is null; the log line of the fallback path reads ecError.stack
\* and throws a TypeError when ecError is null.
fetchGasPrices(gasNow, ethGasStation) ==
  IF gasNow.kind = "unbound" THEN Thrown("ReferenceError", 0, 0)
  ELSE
    LET first == to(gasNow)
        gasNowPrice == first.r.data
        code == first.r.code
        ecError == first.e
    IN
    IF first.r = Null THEN Thrown("TypeError", 1, 0)
    ELSE IF ecError = NoError /\ code = 200
    THEN Returned([fastest |-> jsDiv(gasNowPrice.fastest, GWEI_IN_WEI),
                   fast |-> jsDiv(gasNowPrice.fast, GWEI_IN_WEI),
                   standard |-> jsDiv(gasNowPrice.standard, GWEI_IN_WEI),
                   safeLow |-> jsDiv(gasNowPrice.safeLow, GWEI_IN_WEI),
                   aboveStandard |-> undefined], 1, 0)
    ELSE IF ecError = NoError THEN Thrown("TypeError", 1, 0)
    ELSE
      LET second == to(ethGasStation)
          egsPrice == second.r.data
          egsError == second.e
      IN
      IF egsError # NoError THEN Thrown("Gas price fetching failed", 1, 1)
      ELSE Returned([fastest |-> jsDiv(egsPrice.fastest, 10),
                     fast |-> jsDiv(egsPrice.fast, 10),
                     standard |-> jsDiv(egsPrice.standard, 10),
                     safeLow |-> jsDiv(egsPrice.safeLow, 10),
                     aboveStandard |-> undefined], 1, 1)

getAboveStandardPrice(prices) ==
  jsDiv(MathFloor(jsAdd(prices.fast, prices.standard)), 2)

\* a getGasPrice that answers 1 gwei when the prices cannot be fetched
getGasPriceOrDefault(speed, gasNow, ethGasStation) ==
  LET fetched == fetchGasPrices(gasNow, ethGasStation) IN
  IF fetched.error # NoError
  THEN [fetched EXCEPT !.error = NoError, !.value = Num(GWEI_IN_WEI)]
  ELSE
    LET price == IF speed = "aboveStandard"
                 THEN jsDiv(MathFloor(jsAdd(fetched.prices.fast, fetched.prices.standard)), 2)
                 ELSE fetched.prices[speed]
    IN
    IF Falsy(price)
    THEN Thrown("No gas price found", fetched.primaryCalls, fetched.fallbackCalls)
    ELSE [fetched EXCEPT !.value = MathRound(jsMul(price, GWEI_IN_WEI))]

\* a getGasPrice that returns whatever price it computed
getGasPriceUnchecked(speed, gasNow, ethGasStation) ==
  LET fetched == fetchGasPrices(gasNow, ethGasStation) IN
  IF fetched.error # NoError THEN fetched
  ELSE
    LET fast == fetched.prices.fast
        standard == fetched.prices.standard
        price == IF speed = "aboveStandard"
                 THEN (IF fast >= 0 /\ standard >= 0 THEN (((fast + standard) \div 10) * 10) \div 2
                       ELSE -2)
                 ELSE fetched.prices[speed]
    IN
    [fetched EXCEPT !.value = IF price >= 0 THEN (((price * 1000) + 5) \div 10) * 10 ELSE -2]

\* getGasPrice: the price of the requested speed in wei, or the error thrown
getGasPrice(speed, gasNow, ethGasStation) ==
  LET fetched == fetchGasPrices(gasNow, ethGasStation) IN
  IF fetched.error # NoError THEN fetched
  ELSE
    LET prices == [fetched.prices EXCEPT !.aboveStandard = getAboveStandardPrice(fetched.prices)]
        price == prices[speed]
    IN
    IF Falsy(price)
    THEN Thrown("No gas price found", fetched.primaryCalls, fetched.fallbackCalls)
    ELSE [fetched EXCEPT !.prices = prices, !.value = MathRound(jsMul(price, GWEI_IN_WEI))]

\* ------------------------------------------------------------- the loop
VARIABLES
  config,       \* the environment variables read by init (lines 14-17)
  pc,           \* the await the loop is suspended at
  iterations,   \* getGasEstimateAndIterations: let iterations
  gasEstimate,  \* getGasEstimateAndIterations: let gasEstimate; init: const gasEstimate
  gasPrice,     \* init: const gasPrice
  nonce,        \* init: const nonce
  boundary,     \* the chain: estimateGas(n) fits the gas limit iff n <= boundary
  pending,      \* history: what hasPendingActions() answered in the cycle
  idleStreak,   \* history: the idle cycles in a row, this one included
  probes,       \* history: the estimateGas calls of the cycle and their answers
  priceEnv,     \* history: what the two price sources answered in the cycle
  calls,        \* history: the calls made in the cycle, by capability
  sent,         \* history: the arguments of the processPendingActions calls of the cycle
  caught,       \* history: the error caught by the loop in the cycle
  outcome,      \* history: how the cycle ended
  slept,        \* history: milliseconds slept since the cycle ended
  signal,       \* history: the PendingActionsProcessed event of the transaction, when the
                \* last finished cycle submitted one
  pendingFlag,  \* the older loop: let hasPendingActions
  inflight,     \* the older loop: the remote calls the loop is waiting for
  abandoned,    \* the older loop: calls of a rejected Promise.all that have not settled
  logged,       \* the older loop: the last log.error of the cycle
  unhandled,    \* the error that init() rejected with
  exitCode      \* the argument of process.exit

vars ==
  <<config, pc, iterations, gasEstimate, gasPrice, nonce, boundary, pending,
    idleStreak, probes, priceEnv, calls, sent, caught, outcome, slept,
    signal, pendingFlag, inflight, abandoned, logged, unhandled, exitCode>>

\* what only the older loop and the exit of the process write
olderVars == <<pendingFlag, inflight, abandoned, logged, unhandled, exitCode>>
\* tx.logs: the event is missing, or carries args.finished
Signals == {"absent", "finished", "unfinished"}
NoSignal == "none"

Configs ==
  [POLL_INTERVAL_MILLIS : {60000},
   DEFAULT_ITERATIONS : (1..MaxStart) \cup {100},
   MAX_GAS : {500000, 600000},
   MAX_GAS_PRICE_GWEI : {30}]

\* init line 20; the product is a number of the price path
MAX_GAS_PRICE(cfg) == jsMul(Num(cfg.MAX_GAS_PRICE_GWEI), GWEI_IN_WEI)

Boundaries == (-1..MaxBoundary) \cup {50, 100}
\* what estimateGas may report under the gas limit maxGas
Costs(maxGas) == {c \in {400000, 500000, 600000} : c <= maxGas}

NoCalls ==
  [hasPendingActions |-> 0, estimateGas |-> 0, getGasPrice |-> 0, primary |-> 0,
   fallback |-> 0, getTransactionCount |-> 0, processPendingActions |-> 0, sleep |-> 0]
NoPriceEnv == [primary |-> Null, fallback |-> Null]

Init ==
  /\ config \in Configs
  /\ pc = "hasPendingActions"
  /\ iterations = undefined
  /\ gasEstimate = undefined
  /\ gasPrice = undefined
  /\ nonce = undefined
  /\ boundary = -1
  /\ pending = "none"
  /\ idleStreak = 0
  /\ probes = <<>>
  /\ priceEnv = NoPriceEnv
  /\ calls = NoCalls
  /\ sent = <<>>
  /\ caught = NoError
  /\ outcome = "None"
  /\ slept = 0
  /\ signal = NoSignal
  /\ pendingFlag = FALSE
  /\ inflight = {}
  /\ abandoned = {}
  /\ logged = NoError
  /\ unhandled = NoError
  /\ exitCode = undefined

\* a loop that takes the answer of hasPendingActions() the wrong way round
PendingActionsInverted(hasPendingActions) == hasPendingActions
\* line 43: if (!hasPendingActions)
NoPendingActions(hasPendingActions) == ~hasPendingActions
\* a sizer that asks again with the same count
HalveNothing(n) == n
\* a sizer that steps down by one instead of halving
HalveByDecrement(n) == IF n > 0 THEN n - 1 ELSE 0
\* line 84
Halve(n) == n \div 2
\* a sizer that halves on every estimation error
IsAnyEstimateError(answer) == answer.kind # "ok"
\* line 82: e.message.includes('base fee exceeds gas limit')
IsBaseFeeExceedsGasLimit(answer) == answer.kind = "exceeds"
\* a loop without the ceiling check
NeverExceedsMaxGasPrice(price, maxGasPrice) == FALSE
\* a ceiling check that also refuses a price equal to the ceiling
ReachesMaxGasPrice(price, maxGasPrice) == price >= maxGasPrice
\* line 53: if (gasPrice > MAX_GAS_PRICE)
ExceedsMaxGasPrice(price, maxGasPrice) == price > maxGasPrice
\* a gas limit without the safety margin
NoMargin(estimate) == estimate
\* line 58: Math.floor(gasEstimate * 1.1)
IncreasedGasEstimate(estimate) == (estimate * 11) \div 10
\* lines 61-65: the arguments of processPendingActions
Transaction(its, estimate, price, n) ==
  [iterations |-> its, gas |-> IncreasedGasEstimate(estimate), gasPrice |-> price, nonce |-> n]

\* a catch block that goes back to the top of the loop without sleeping
CatchWithoutSleep(error) ==
  /\ caught' = error
  /\ outcome' = "Failed"
  /\ signal' = NoSignal
  /\ pc' = "hasPendingActions"
\* the catch block of the loop, lines 67-69, up to its await sleep
Catch(error) ==
  /\ caught' = error
  /\ outcome' = "Failed"
  /\ signal' = NoSignal
  /\ pc' = "sleepFailed"

\* A new cycle starts: the block-scoped constants of the previous iteration are gone.
NewCycle ==
  /\ probes' = <<>>
  /\ priceEnv' = NoPriceEnv
  /\ sent' = <<>>
  /\ slept' = 0
  /\ gasEstimate' = undefined
  /\ gasPrice' = undefined
  /\ nonce' = undefined
  /\ calls' = [NoCalls EXCEPT !.hasPendingActions = 1]
  /\ UNCHANGED olderVars

\* line 42 and its continuation, lines 43-50 up to the first estimateGas
HasPendingActions ==
  /\ pc = "hasPendingActions"
  /\ NewCycle
  /\ UNCHANGED config
  /\ \E hasPendingActions \in BOOLEAN :
       /\ pending' = IF hasPendingActions THEN "true" ELSE "false"
       /\ IF NoPendingActions(hasPendingActions)
          THEN /\ pc' = "sleepIdle"
               /\ outcome' = "Idle"
               /\ idleStreak' = IF idleStreak < MaxIdleStreak THEN idleStreak + 1 ELSE idleStreak
               /\ caught' = NoError
               /\ iterations' = undefined
               /\ boundary' = -1
               /\ signal' = NoSignal
          ELSE /\ pc' = "estimateGas"
               /\ signal' = signal
               /\ outcome' = "Running"
               /\ idleStreak' = 0
               /\ caught' = NoError
               /\ iterations' = config.DEFAULT_ITERATIONS
               /\ boundary' \in Boundaries

\* line 42 rejects
HasPendingActionsFails ==
  /\ pc = "hasPendingActions"
  /\ NewCycle
  /\ Catch("hasPendingActions failed")
  /\ pending' = "error"
  /\ idleStreak' = 0
  /\ iterations' = undefined
  /\ boundary' = -1
  /\ UNCHANGED config

\* what estimateGas(n, { gas: maxGas }) settles with
EstimateAnswers(n, maxGas) ==
  (IF n <= boundary
   THEN {[kind |-> "ok", cost |-> c] : c \in Costs(maxGas)}
   ELSE {[kind |-> "exceeds", cost |-> undefined]})
  \cup {[kind |-> "error", cost |-> undefined]}

\* getGasEstimateAndIterations, lines 77-95: one turn of its loop
EstimateGas ==
  /\ pc = "estimateGas"
  /\ Len(probes) < MaxProbes
  /\ \E answer \in EstimateAnswers(iterations, config.MAX_GAS) :
       /\ probes' = Append(probes, [iterations |-> iterations, answer |-> answer.kind,
                                    cost |-> answer.cost])
       /\ calls' = [calls EXCEPT !.estimateGas = @ + 1]
       /\ IF answer.kind = "ok"
          THEN /\ gasEstimate' = answer.cost
               /\ pc' = "getGasPrice"
               /\ UNCHANGED <<iterations, caught, outcome, signal>>
          ELSE IF IsBaseFeeExceedsGasLimit(answer)
          THEN /\ iterations' = Halve(iterations)
               /\ UNCHANGED <<gasEstimate, pc, caught, outcome, signal>>
          ELSE /\ Catch("estimateGas failed")
               /\ UNCHANGED <<iterations, gasEstimate>>
  /\ UNCHANGED <<config, gasPrice, nonce, boundary, pending, idleStreak, priceEnv, sent, slept>>
  /\ UNCHANGED olderVars

\* line 51 and its continuation, lines 53-59 up to getTransactionCount
GetGasPrice ==
  /\ pc = "getGasPrice"
  /\ \E gasNow \in PrimaryResponses, ethGasStation \in FallbackResponses :
       LET got == getGasPrice(SPEED.ABOVE_STANDARD, gasNow, ethGasStation) IN
       /\ priceEnv' = [primary |-> gasNow, fallback |-> ethGasStation]
       /\ calls' = [calls EXCEPT !.getGasPrice = @ + 1,
                                 !.primary = @ + got.primaryCalls,
                                 !.fallback = @ + got.fallbackCalls]
       /\ IF got.error # NoError
          THEN /\ Catch(got.error)
               /\ UNCHANGED gasPrice
          ELSE /\ gasPrice' = got.value
               /\ caught' = caught
               /\ IF ExceedsMaxGasPrice(got.value, MAX_GAS_PRICE(config))
                  THEN pc' = "sleepSkipped" /\ outcome' = "Skipped" /\ signal' = NoSignal
                  ELSE pc' = "getTransactionCount" /\ outcome' = outcome /\ signal' = signal
  /\ UNCHANGED <<config, iterations, gasEstimate, nonce, boundary, pending,
                 idleStreak, probes, sent, slept, olderVars>>

\* line 59
GetTransactionCount ==
  /\ pc = "getTransactionCount"
  /\ nonce' \in 0..MaxNonce
  /\ calls' = [calls EXCEPT !.getTransactionCount = @ + 1]
  /\ pc' = "processPendingActions"
  /\ UNCHANGED <<config, iterations, gasEstimate, gasPrice, boundary, pending,
                 idleStreak, probes, priceEnv,
                 sent, caught, outcome, slept, signal, olderVars>>

GetTransactionCountFails ==
  /\ pc = "getTransactionCount"
  /\ calls' = [calls EXCEPT !.getTransactionCount = @ + 1]
  /\ Catch("getTransactionCount failed")
  /\ UNCHANGED <<config, iterations, gasEstimate, gasPrice, nonce, boundary, pending,
                 idleStreak, probes, priceEnv, sent, slept, olderVars>>

\* lines 61-66; the loop then starts its next iteration
ProcessPendingActions ==
  /\ pc = "processPendingActions"
  /\ sent' = Append(sent, Transaction(iterations, gasEstimate, gasPrice, nonce))
  /\ calls' = [calls EXCEPT !.processPendingActions = @ + 1]
  /\ outcome' = "Submitted"
  /\ signal' \in Signals
  /\ pc' = "hasPendingActions"
  /\ UNCHANGED <<config, iterations, gasEstimate, gasPrice, nonce, boundary, pending,
                 idleStreak, probes, priceEnv, caught, slept, olderVars>>

\* a loop that calls processPendingActions again at once when the call has failed
ProcessPendingActionsRetried ==
  /\ pc = "processPendingActions"
  /\ sent' = Append(sent, Transaction(iterations, gasEstimate, gasPrice, nonce))
  /\ calls' = [calls EXCEPT !.processPendingActions = @ + 1]
  /\ caught' = "processPendingActions failed"
  /\ Len(sent) < 2
  /\ UNCHANGED <<config, pc, iterations, gasEstimate, gasPrice, nonce, boundary, pending,
                 idleStreak, probes, priceEnv, slept, outcome, signal, olderVars>>

ProcessPendingActionsFails ==
  /\ pc = "processPendingActions"
  /\ sent' = Append(sent, Transaction(iterations, gasEstimate, gasPrice, nonce))
  /\ calls' = [calls EXCEPT !.processPendingActions = @ + 1]
  /\ Catch("processPendingActions failed")
  /\ UNCHANGED <<config, iterations, gasEstimate, gasPrice, nonce, boundary, pending,
                 idleStreak, probes, priceEnv, slept, olderVars>>

\* a sleep after which the loop goes on to the estimation without asking again
SleepThenEstimate ==
  /\ pc \in {"sleepIdle", "sleepSkipped", "sleepFailed"}
  /\ slept' = slept + config.POLL_INTERVAL_MILLIS
  /\ calls' = [calls EXCEPT !.sleep = @ + 1]
  /\ pc' = "estimateGas"
  /\ UNCHANGED <<config, iterations, gasEstimate, gasPrice, nonce, boundary, pending,
                 idleStreak, probes, priceEnv, sent, caught, outcome, signal, olderVars>>
\* lines 45, 55, 69: await sleep(POLL_INTERVAL_MILLIS), then the next iteration
Sleep ==
  /\ pc \in {"sleepIdle", "sleepSkipped", "sleepFailed"}
  /\ slept' = slept + config.POLL_INTERVAL_MILLIS
  /\ calls' = [calls EXCEPT !.sleep = @ + 1]
  /\ pc' = "hasPendingActions"
  /\ UNCHANGED <<config, iterations, gasEstimate, gasPrice, nonce, boundary, pending,
                 idleStreak, probes, priceEnv, sent, caught, outcome, signal, olderVars>>

Next ==
  \/ HasPendingActions
  \/ HasPendingActionsFails
  \/ EstimateGas
  \/ GetGasPrice
  \/ GetTransactionCount
  \/ GetTransactionCountFails
  \/ ProcessPendingActions
  \/ ProcessPendingActionsFails
  \/ Sleep

Spec == Init /\ [][Next]_vars

\* The loop under its scheduling: a promise the loop awaits settles, and the
\* continuation then runs, so the loop does not stay for ever at an await whose
\* step can be taken.
FairSpec == Init /\ [][Next]_vars /\ WF_vars(Next)

\* ------------------------------------------------------------- the older loop
\* src/src/index.js, lines 104-232: the loop that keeps hasPendingActions in a
\* variable, estimates and prices together under Promise.all, and reads the
\* PendingActionsProcessed event of the transaction.  It has no batch sizer, no price
\* ceiling and no nonce: what the current loop keeps for them stays untouched.
sizerVars == <<iterations, nonce, boundary, idleStreak, probes>>

\* an etherchain body { fast, ... }, prices in gwei
EtherchainBody(fast) ==
  [kind |-> "json", code |-> undefined,
   data |-> [fastest |-> undefined, fast |-> fast, standard |-> undefined, safeLow |-> undefined]]
EtherchainResponses ==
  { EtherchainBody(Num(25)), EtherchainBody(255), EtherchainBody(5),
    EtherchainBody(undefined), Rejected }
EthGasStationResponses ==
  { EthGasStationBody(Num(600), Num(400), Num(300), Num(100)),
    EthGasStationBody(Num(600), undefined, Num(300), Num(100)),
    Rejected }

\* parseInt of a price that is not negative
parseInt(x) == IF IsNum(x) THEN (x \div 10) * 10 ELSE NaN

\* getGasPrice of lines 127-142 for a given GWEI_IN_WEI: the fast price of etherchain,
\* and the fast price of ethgasstation when etherchain fails or has no fast price
FastGasPrice(gweiInWei, etherchain, ethGasStation) ==
  IF etherchain.kind = "json" /\ ~Falsy(etherchain.data.fast)
  THEN [Returned(NoPrices, 1, 0) EXCEPT
          !.value = jsMul(parseInt(etherchain.data.fast), gweiInWei)]
  ELSE IF ethGasStation.kind # "json" THEN Thrown("Error", 1, 1)
  ELSE IF Falsy(ethGasStation.data.fast)
  THEN Thrown("Failed to extract 'fast' gas value.", 1, 1)
  ELSE [Returned(NoPrices, 1, 1) EXCEPT
          !.value = MathFloor(jsMul(jsDiv(ethGasStation.data.fast, 10), gweiInWei))]

LegacyConfigs == [POLL_INTERVAL_MILLIS : {30000, 60000}]
\* what estimateGas({ gas: 1e9 }) may report
LegacyCosts == {400000, 500000}

LegacyInit ==
  /\ config \in LegacyConfigs
  /\ pc = "start"
  /\ iterations = undefined
  /\ gasEstimate = undefined
  /\ gasPrice = undefined
  /\ nonce = undefined
  /\ boundary = -1
  /\ pending = "none"
  /\ idleStreak = 0
  /\ probes = <<>>
  /\ priceEnv = NoPriceEnv
  /\ calls = NoCalls
  /\ sent = <<>>
  /\ caught = NoError
  /\ outcome = "None"
  /\ slept = 0
  /\ signal = NoSignal
  /\ pendingFlag = FALSE
  /\ inflight = {}
  /\ abandoned = {}
  /\ logged = NoError
  /\ unhandled = NoError
  /\ exitCode = undefined

\* a handler that ends the process with status 0
UnhandledExitsZero(error) ==
  /\ unhandled' = error
  /\ logged' = "Unhandled app error"
  /\ exitCode' = 0
  /\ pc' = "exited"
  /\ inflight' = {}
\* lines 228-232: init() rejected
Unhandled(error) ==
  /\ unhandled' = error
  /\ logged' = "Unhandled app error"
  /\ exitCode' = 1
  /\ pc' = "exited"
  /\ inflight' = {}

\* line 196: if (hasPendingActions)
Processes(flag) == flag

\* lines 194-201 and 214-216: the loop body from its top to its first await
LegacyIterate(flag) ==
  /\ slept' = 0
  /\ gasEstimate' = undefined
  /\ gasPrice' = undefined
  /\ priceEnv' = NoPriceEnv
  /\ IF Processes(flag)
     THEN /\ pc' = "all"
          /\ inflight' = {"estimateGas", "getGasPrice"}
          /\ calls' = [NoCalls EXCEPT !.estimateGas = 1, !.getGasPrice = 1]
     ELSE /\ pc' = "sleepElse"
          /\ inflight' = {}
          /\ calls' = [NoCalls EXCEPT !.sleep = 1]

\* lines 219-221: the catch block up to its await sleep
LegacyCatch(error) ==
  /\ caught' = error
  /\ outcome' = "Failed"
  /\ logged' = "Failed to handle pending actions"
  /\ signal' = NoSignal
  /\ calls' = [calls EXCEPT !.sleep = @ + 1]
  /\ pc' = "sleepCatch"

\* lines 159-193 succeed: the first answer of hasPendingActions()
LegacyStart ==
  /\ pc = "start"
  /\ \E answer \in BOOLEAN :
       /\ pendingFlag' = answer
       /\ pending' = IF answer THEN "true" ELSE "false"
       /\ LegacyIterate(answer)
  /\ UNCHANGED <<config, sizerVars, sent, caught, outcome, signal, abandoned, logged,
                 unhandled, exitCode>>

\* one of lines 159-193 throws or rejects
LegacyStartFails ==
  /\ pc = "start"
  /\ Unhandled("startup failed")
  /\ UNCHANGED <<config, sizerVars, gasEstimate, gasPrice, pending, priceEnv, calls, sent,
                 caught, outcome, slept, signal, pendingFlag, abandoned>>

\* a Promise.race in the place of Promise.all: fulfilled with its first member
PromiseRaceFulfilled(remaining) == TRUE
\* Promise.all, lines 198-201: fulfilled once no member is left to fulfil
PromiseAllFulfilled(remaining) == remaining = {}

\* lines 202-205: the arguments of processPendingActions
LegacyTransaction(estimate, price) ==
  [iterations |-> undefined, gas |-> estimate, gasPrice |-> price, nonce |-> undefined]

\* line 199 settles.  Fulfilled with the other member fulfilled too, the loop goes on
\* to line 202; rejected, Promise.all rejects at once and the catch block runs while
\* the other member may still be outstanding.
LegacyEstimateGas ==
  /\ pc = "all"
  /\ "estimateGas" \in inflight
  /\ LET remaining == inflight \ {"estimateGas"} IN
     \E answer \in LegacyCosts \cup {undefined} :
       IF answer # undefined
       THEN /\ gasEstimate' = answer
            /\ IF PromiseAllFulfilled(remaining)
               THEN /\ pc' = "process"
                    /\ inflight' = remaining \cup {"processPendingActions"}
                    /\ calls' = [calls EXCEPT !.processPendingActions = @ + 1]
               ELSE /\ inflight' = remaining
                    /\ UNCHANGED <<pc, calls>>
            /\ UNCHANGED <<caught, outcome, logged, signal, abandoned>>
       ELSE /\ LegacyCatch("estimateGas failed")
            /\ abandoned' = abandoned \cup remaining
            /\ inflight' = {}
            /\ UNCHANGED gasEstimate
  /\ UNCHANGED <<config, sizerVars, gasPrice, pending, priceEnv, sent, slept, pendingFlag,
                 unhandled, exitCode>>

\* line 200 settles
LegacyGetGasPrice ==
  /\ pc = "all"
  /\ "getGasPrice" \in inflight
  /\ LET remaining == inflight \ {"getGasPrice"} IN
     \E etherchain \in EtherchainResponses, ethGasStation \in EthGasStationResponses :
       LET got == FastGasPrice(GWEI_IN_WEI, etherchain, ethGasStation) IN
       /\ priceEnv' = [primary |-> etherchain, fallback |-> ethGasStation]
       /\ IF got.error = NoError
          THEN /\ gasPrice' = got.value
               /\ IF PromiseAllFulfilled(remaining)
                  THEN /\ pc' = "process"
                       /\ inflight' = remaining \cup {"processPendingActions"}
                       /\ calls' = [calls EXCEPT !.processPendingActions = @ + 1,
                                                 !.primary = @ + got.primaryCalls,
                                                 !.fallback = @ + got.fallbackCalls]
                  ELSE /\ inflight' = remaining
                       /\ calls' = [calls EXCEPT !.primary = @ + got.primaryCalls,
                                                 !.fallback = @ + got.fallbackCalls]
                       /\ UNCHANGED pc
               /\ UNCHANGED <<caught, outcome, logged, signal, abandoned>>
          ELSE /\ LegacyCatch(got.error)
               /\ abandoned' = abandoned \cup remaining
               /\ inflight' = {}
               /\ UNCHANGED gasPrice
  /\ UNCHANGED <<config, sizerVars, gasEstimate, pending, sent, slept, pendingFlag,
                 unhandled, exitCode>>

\* a member of a rejected Promise.all settles; nothing waits for it
LegacyAbandonedSettles ==
  /\ pc # "exited"
  /\ \E call \in abandoned : abandoned' = abandoned \ {call}
  /\ UNCHANGED <<config, pc, sizerVars, gasEstimate, gasPrice, pending, priceEnv, calls, sent,
                 caught, outcome, slept, signal, pendingFlag, inflight, logged, unhandled,
                 exitCode>>

\* an event handler that takes a missing event for the end of the work
PendingAfterFinishedOrMissing(event, flag) == event = "unfinished"
\* an event handler that does not read the event
PendingAfterIgnored(event, flag) == flag
\* lines 207-213: hasPendingActions after the transaction
PendingAfter(event, flag) == IF event = "absent" THEN flag ELSE event # "finished"
\* line 209
EventLog(event) ==
  IF event = "absent"
  THEN "Unexpected: PendingActionsProcessed event could not be found."
  ELSE NoError

\* line 202 is fulfilled: lines 206-213, then the next iteration
LegacyProcessPendingActions ==
  /\ pc = "process"
  /\ \E event \in Signals :
       /\ signal' = event
       /\ logged' = EventLog(event)
       /\ pendingFlag' = PendingAfter(event, pendingFlag)
       /\ LegacyIterate(PendingAfter(event, pendingFlag))
  /\ sent' = <<LegacyTransaction(gasEstimate, gasPrice)>>
  /\ outcome' = "Submitted"
  /\ caught' = NoError
  /\ UNCHANGED <<config, sizerVars, pending, abandoned, unhandled, exitCode>>

\* line 202 rejects
LegacyProcessPendingActionsFails ==
  /\ pc = "process"
  /\ sent' = <<LegacyTransaction(gasEstimate, gasPrice)>>
  /\ LegacyCatch("processPendingActions failed")
  /\ inflight' = {}
  /\ UNCHANGED <<config, sizerVars, gasEstimate, gasPrice, pending, priceEnv, slept,
                 pendingFlag, abandoned, unhandled, exitCode>>

\* line 216 resumes: line 217 asks again
LegacySleepIdle ==
  /\ pc = "sleepElse"
  /\ slept' = slept + config.POLL_INTERVAL_MILLIS
  /\ pc' = "queryElse"
  /\ inflight' = {"hasPendingActions"}
  /\ calls' = [calls EXCEPT !.hasPendingActions = @ + 1]
  /\ UNCHANGED <<config, sizerVars, gasEstimate, gasPrice, pending, priceEnv, sent, caught,
                 outcome, signal, pendingFlag, abandoned, logged, unhandled, exitCode>>

\* line 217 is fulfilled: the idle iteration is over
LegacyHasPendingActions ==
  /\ pc = "queryElse"
  /\ \E answer \in BOOLEAN :
       /\ pendingFlag' = answer
       /\ pending' = IF answer THEN "true" ELSE "false"
       /\ LegacyIterate(answer)
  /\ outcome' = "Idle"
  /\ sent' = <<>>
  /\ caught' = NoError
  /\ logged' = NoError
  /\ signal' = NoSignal
  /\ UNCHANGED <<config, sizerVars, abandoned, unhandled, exitCode>>

\* line 217 rejects
LegacyHasPendingActionsFails ==
  /\ pc = "queryElse"
  /\ pending' = "error"
  /\ LegacyCatch("hasPendingActions failed")
  /\ inflight' = {}
  /\ UNCHANGED <<config, sizerVars, gasEstimate, gasPrice, priceEnv, sent, slept,
                 pendingFlag, abandoned, unhandled, exitCode>>

\* line 221 resumes: line 222 asks again
LegacySleepFailed ==
  /\ pc = "sleepCatch"
  /\ slept' = slept + config.POLL_INTERVAL_MILLIS
  /\ pc' = "queryCatch"
  /\ inflight' = {"hasPendingActions"}
  /\ calls' = [calls EXCEPT !.hasPendingActions = @ + 1]
  /\ UNCHANGED <<config, sizerVars, gasEstimate, gasPrice, pending, priceEnv, sent, caught,
                 outcome, signal, pendingFlag, abandoned, logged, unhandled, exitCode>>

\* line 222 is fulfilled: the failed iteration is over
LegacyRequery ==
  /\ pc = "queryCatch"
  /\ \E answer \in BOOLEAN :
       /\ pendingFlag' = answer
       /\ pending' = IF answer THEN "true" ELSE "false"
       /\ LegacyIterate(answer)
  /\ UNCHANGED <<config, sizerVars, sent, caught, outcome, signal, abandoned, logged,
                 unhandled, exitCode>>

\* line 222 rejects, outside every try block: init() rejects
LegacyRequeryFails ==
  /\ pc = "queryCatch"
  /\ pending' = "error"
  /\ Unhandled("hasPendingActions failed")
  /\ UNCHANGED <<config, sizerVars, gasEstimate, gasPrice, priceEnv, calls, sent, caught,
                 outcome, slept, signal, pendingFlag, abandoned>>

LegacyNext ==
  \/ LegacyStart
  \/ LegacyStartFails
  \/ LegacyEstimateGas
  \/ LegacyGetGasPrice
  \/ LegacyAbandonedSettles
  \/ LegacyProcessPendingActions
  \/ LegacyProcessPendingActionsFails
  \/ LegacySleepIdle
  \/ LegacyHasPendingActions
  \/ LegacyHasPendingActionsFails
  \/ LegacySleepFailed
  \/ LegacyRequery
  \/ LegacyRequeryFails

SpecLegacy == LegacyInit /\ [][LegacyNext]_vars

\* ------------------------------------------------------------- the loop of part_001
\* src/unnamed/part_001: the loop of lines 56-87 is the current loop, line for line,
\* but its price is the getGasPrice of lines 11-26 (etherchain, then ethgasstation),
\* scaled by the GWEI_IN_WEI of line 9, and its ceiling is MAX_GAS_PRICE as configured.
\* line 9: 10e9, counted in units of 10^6 wei
Part001_GWEI_IN_WEI == 10000

\* MAX_GAS_PRICE is configured in wei: 30 gwei, 300 gwei
Part001Configs ==
  [POLL_INTERVAL_MILLIS : {60000},
   DEFAULT_ITERATIONS : {2, 100},
   MAX_GAS : {500000},
   MAX_GAS_PRICE : {Num(30 * GWEI_IN_WEI), Num(300 * GWEI_IN_WEI)}]

Part001Init ==
  /\ config \in Part001Configs
  /\ pc = "hasPendingActions"
  /\ iterations = undefined
  /\ gasEstimate = undefined
  /\ gasPrice = undefined
  /\ nonce = undefined
  /\ boundary = -1
  /\ pending = "none"
  /\ idleStreak = 0
  /\ probes = <<>>
  /\ priceEnv = NoPriceEnv
  /\ calls = NoCalls
  /\ sent = <<>>
  /\ caught = NoError
  /\ outcome = "None"
  /\ slept = 0
  /\ signal = NoSignal
  /\ pendingFlag = FALSE
  /\ inflight = {}
  /\ abandoned = {}
  /\ logged = NoError
  /\ unhandled = NoError
  /\ exitCode = undefined

\* lines 67-75: await getGasPrice() and the ceiling check
Part001GetGasPrice ==
  /\ pc = "getGasPrice"
  /\ \E etherchain \in EtherchainResponses, ethGasStation \in EthGasStationResponses :
       LET got == FastGasPrice(Part001_GWEI_IN_WEI, etherchain, ethGasStation) IN
       /\ priceEnv' = [primary |-> etherchain, fallback |-> ethGasStation]
       /\ calls' = [calls EXCEPT !.getGasPrice = @ + 1,
                                 !.primary = @ + got.primaryCalls,
                                 !.fallback = @ + got.fallbackCalls]
       /\ IF got.error # NoError
          THEN /\ Catch(got.error)
               /\ UNCHANGED gasPrice
          ELSE /\ gasPrice' = got.value
               /\ caught' = caught
               /\ IF ExceedsMaxGasPrice(got.value, config.MAX_GAS_PRICE)
                  THEN pc' = "sleepSkipped" /\ outcome' = "Skipped" /\ signal' = NoSignal
                  ELSE pc' = "getTransactionCount" /\ outcome' = outcome /\ signal' = signal
  /\ UNCHANGED <<config, iterations, gasEstimate, nonce, boundary, pending,
                 idleStreak, probes, sent, slept, olderVars>>

Part001Next ==
  \/ HasPendingActions
  \/ HasPendingActionsFails
  \/ EstimateGas
  \/ Part001GetGasPrice
  \/ GetTransactionCount
  \/ GetTransactionCountFails
  \/ ProcessPendingActions
  \/ ProcessPendingActionsFails
  \/ Sleep

SpecPart001 == Part001Init /\ [][Part001Next]_vars

\* ------------------------------------------------------------- the batch sizer
\* the iteration counts probed so far in the cycle, in order
Probed == [i \in 1..Len(probes) |-> probes[i].iterations]
\* getGasEstimateAndIterations has returned in the cycle
SizerReturned == gasEstimate # undefined
IsPrefix(s, t) == Len(s) <= Len(t) /\ \A i \in 1..Len(s) : s[i] = t[i]

\* start, floor(start / 2), floor(start / 4), ... down to the first count <= B
RECURSIVE HalvingUntilFit(_, _)
HalvingUntilFit(n, B) ==
  IF n <= B \/ n = 0 THEN <<n>> ELSE <<n>> \o HalvingUntilFit(n \div 2, B)

RECURSIVE Log2(_)
Log2(n) == IF n <= 1 THEN 0 ELSE 1 + Log2(n \div 2)

\* C1: with a feasibility boundary B >= 1 the sizer probes start, floor(start/2),
\* floor(start/4), ... in that order, and returns the first probed count n <= B
\* with the cost estimateGas reported for n, without shrinking any further.
C1_SizerReturnsFirstFit ==
  boundary >= 1 =>
    LET expected == HalvingUntilFit(config.DEFAULT_ITERATIONS, boundary) IN
    /\ IsPrefix(Probed, expected)
    /\ SizerReturned =>
         /\ Probed = expected
         /\ iterations = expected[Len(expected)]
         /\ iterations <= boundary
         /\ \A i \in 1..(Len(probes) - 1) : probes[i].iterations > boundary
         /\ probes[Len(probes)].answer = "ok"
         /\ gasEstimate = probes[Len(probes)].cost

\* start = 100, estimateGas(100) exceeds, estimateGas(50) = 400000
C1_Witness ==
  /\ config.DEFAULT_ITERATIONS = 100
  /\ Probed = <<100, 50>>
  /\ pc = "getGasPrice"
  /\ iterations = 50
  /\ gasEstimate = 400000

\* estimateGas(1) answered that the gas limit is exceeded
HalvedToZero == \E i \in 1..Len(probes) : probes[i].iterations = 1 /\ probes[i].answer = "exceeds"

\* C2: when halving drives the iteration count to 0 the sizer fails: it never
\* returns a batch of 0 iterations, the cycle fails, and no transaction with
\* iterations = 0 is sent.
C2_NoBatchOfZeroIterations ==
  /\ SizerReturned => iterations >= 1
  /\ (HalvedToZero /\ pc # "estimateGas") => outcome = "Failed"
  /\ \A i \in 1..Len(sent) : sent[i].iterations >= 1

\* C3: the sizer ends after at most floor(log2(start)) + 1 estimateGas calls and
\* never probes the same iteration count twice, whatever estimateGas answers.
C3_ProbesBoundedAndDistinct ==
  /\ Len(probes) <= Log2(config.DEFAULT_ITERATIONS) + 1
  /\ \A i, j \in 1..Len(probes) : i # j => probes[i].iterations # probes[j].iterations

\* ------------------------------------------------------------- the cycle
\* the cycle has reached the ceiling check of line 53
ReachedCeilingCheck == gasPrice # undefined
CycleEnded == outcome \in {"Idle", "Skipped", "Submitted", "Failed"}
\* the poll interval has been slept, once, and the next cycle has not started
SleptPollInterval ==
  pc = "hasPendingActions" /\ calls.sleep = 1 /\ slept = config.POLL_INTERVAL_MILLIS
\* the configured ceiling in wei: MAX_GAS_PRICE_GWEI * 10^9
CeilingInWei == Num(config.MAX_GAS_PRICE_GWEI * GWEI_IN_WEI)

\* C4 as stated: in a cycle that reached the ceiling check, processPendingActions
\* is called iff the quote is at most the ceiling.
C4_SubmitsIffWithinCeiling ==
  (ReachedCeilingCheck /\ CycleEnded) =>
    (calls.processPendingActions >= 1 <=> gasPrice <= CeilingInWei)

\* C4 amended: processPendingActions is called only if the quote is at most the
\* ceiling, and then exactly when the nonce fetch that follows the check succeeds;
\* a quote above the ceiling ends the cycle as Skipped with no nonce fetch and
\* no submission, and the poll interval is slept before the next cycle.
C4_CeilingCheck ==
  ReachedCeilingCheck =>
    IF gasPrice > CeilingInWei
    THEN /\ outcome = "Skipped"
         /\ calls.getTransactionCount = 0
         /\ calls.processPendingActions = 0
         /\ sent = <<>>
         /\ pc = "sleepSkipped" \/ SleptPollInterval
    ELSE /\ outcome # "Skipped"
         /\ pc = "getTransactionCount" \/ calls.getTransactionCount = 1
         /\ CycleEnded => (calls.processPendingActions = 1 <=> nonce # undefined)
         /\ calls.processPendingActions <= 1

\* a quote of 35 gwei against the ceiling of 30 gwei: skipped, and slept
C4_Witness ==
  /\ gasPrice = Num(35 * GWEI_IN_WEI)
  /\ config.MAX_GAS_PRICE_GWEI = 30
  /\ outcome = "Skipped"
  /\ SleptPollInterval

\* C5: a cycle in which hasPendingActions() answers false ends Idle and makes
\* no estimateGas, price, nonce or submit call, however many such cycles
\* follow one another.
C5_IdleCycleMakesNoCalls ==
  pending = "false" =>
    /\ outcome = "Idle"
    /\ pc = "sleepIdle" \/ SleptPollInterval
    /\ calls.estimateGas = 0 /\ probes = <<>>
    /\ calls.getGasPrice = 0 /\ calls.primary = 0 /\ calls.fallback = 0
    /\ calls.getTransactionCount = 0
    /\ calls.processPendingActions = 0 /\ sent = <<>>

\* the second idle cycle in a row, after its sleep
C5_Witness ==
  pending = "false" /\ idleStreak = 2 /\ outcome = "Idle" /\ SleptPollInterval

\* ------------------------------------------------------------- the price oracle
PriceFetched == calls.getGasPrice = 1
\* GasNow answered with code 200
PrimaryAnswered == priceEnv.primary.kind = "json" /\ priceEnv.primary.code = 200
\* the request to GasNow failed: network error or unparsable body, or a code other than 200
PrimaryFailed ==
  \/ priceEnv.primary.kind = "reject"
  \/ priceEnv.primary.kind = "json" /\ priceEnv.primary.code # 200
FallbackAnswered == priceEnv.fallback.kind = "json"
FallbackFailed == priceEnv.fallback.kind = "reject"

\* the above-standard price in wei that a GasNow body (prices in wei) stands for:
\* floor(fast + standard gwei) / 2 gwei
PrimaryQuote(body) ==
  Num(((((body.data.fast + body.data.standard) \div GWEI_IN_WEI) \div 10) * GWEI_IN_WEI) \div 2)
\* and that an EthGasStation body (prices in tenths of a gwei) stands for
FallbackQuote(body) ==
  Num(((((body.data.fast + body.data.standard) \div 10) \div 10) * GWEI_IN_WEI) \div 2)

\* C6: when the primary source answers, the fallback source is not asked in that
\* getGasPrice call and the quote is computed from the primary's values alone.
C6_PrimaryAnswerNeedsNoFallback ==
  (PriceFetched /\ PrimaryAnswered) =>
    /\ calls.primary = 1
    /\ calls.fallback = 0
    /\ gasPrice # undefined => gasPrice = PrimaryQuote(priceEnv.primary)
    /\ \A other \in FallbackResponses :
         getGasPrice(SPEED.ABOVE_STANDARD, priceEnv.primary, other).value = gasPrice

\* GasNow answers 20 gwei while EthGasStation would have answered 40
C6_Witness ==
  /\ PriceFetched /\ PrimaryAnswered /\ FallbackAnswered
  /\ FallbackQuote(priceEnv.fallback) = Num(40 * GWEI_IN_WEI)
  /\ gasPrice = Num(20 * GWEI_IN_WEI)
  /\ calls.fallback = 0

\* C7: when the primary source fails the fallback source is asked exactly once,
\* and when it answers getGasPrice returns the fallback's quote.
C7_FallbackOnPrimaryFailure ==
  (PriceFetched /\ PrimaryFailed) =>
    /\ calls.fallback = 1
    /\ FallbackAnswered => gasPrice = FallbackQuote(priceEnv.fallback)

C9_SubmissionArguments ==
  \A i \in 1..Len(sent) :
    LET tx == sent[i]
        last == probes[Len(probes)]
    IN
    /\ probes # <<>> /\ last.answer = "ok"
    /\ tx.iterations = last.iterations
    /\ tx.gas * 10 <= last.cost * 11 /\ last.cost * 11 < (tx.gas + 1) * 10
    /\ last.cost = 500000 => tx.gas = 550000
    /\ PriceFetched
    /\ tx.gasPrice = getGasPrice(SPEED.ABOVE_STANDARD, priceEnv.primary, priceEnv.fallback).value
    /\ tx.gasPrice <= CeilingInWei
    /\ calls.getTransactionCount = 1
    /\ tx.nonce = nonce /\ nonce \in 0..MaxNonce

\* 100 iterations estimated at 500000 gas, quoted at 20 gwei
C9_Witness ==
  /\ outcome = "Submitted"
  /\ Len(sent) = 1
  /\ sent[1].iterations = 100
  /\ sent[1].gas = 550000
  /\ sent[1].gasPrice = Num(20 * GWEI_IN_WEI)
  /\ sent[1].nonce = 1

\* C10: the gas limit of every processPendingActions call is at most MAX_GAS.
C10_GasWithinMaxGas ==
  \A i \in 1..Len(sent) : sent[i].gas <= config.MAX_GAS

\* ------------------------------------------------------------- the completion signal
\* the last finished iteration of the older loop submitted, and nothing has failed since
LegacySubmitted == outcome = "Submitted"
EventNotFound == "Unexpected: PendingActionsProcessed event could not be found."

Sleeping == pc \in {"sleepIdle", "sleepSkipped", "sleepFailed"}

\* C13: a cycle that ended Idle, Skipped or Failed is followed by exactly one sleep of
\* the poll interval: until that sleep is over the loop is suspended in it, and the
\* next cycle starts with one sleep of POLL_INTERVAL_MILLIS behind it, never with none.
C13_OneSleepBeforeTheNextCycle ==
  outcome \in {"Idle", "Skipped", "Failed"} =>
    \/ /\ Sleeping
       /\ pc = "sleep" \o outcome
       /\ calls.sleep = 0
       /\ slept = 0
    \/ /\ pc = "hasPendingActions"
       /\ calls.sleep = 1
       /\ slept = config.POLL_INTERVAL_MILLIS
       /\ ENABLED HasPendingActions

C13_Witness ==
  /\ outcome = "Failed"
  /\ caught = "getTransactionCount failed"
  /\ pc = "hasPendingActions"
  /\ calls.sleep = 1
  /\ slept = config.POLL_INTERVAL_MILLIS

\* ------------------------------------------------------------- failures and the exit
\* the awaits of the older loop, from its start to its end
LegacyAwaits == {"start", "all", "process", "sleepElse", "queryElse", "sleepCatch", "queryCatch"}
LegacyLoopStep ==
  \/ LegacyStart \/ LegacyStartFails
  \/ LegacyEstimateGas \/ LegacyGetGasPrice
  \/ LegacyProcessPendingActions \/ LegacyProcessPendingActionsFails
  \/ LegacySleepIdle \/ LegacyHasPendingActions \/ LegacyHasPendingActionsFails
  \/ LegacySleepFailed \/ LegacyRequery \/ LegacyRequeryFails

\* C14: no expected failure (of the pending-work query, the estimation, the price
\* fetch or the submission) ends the process once the loop runs: the process exits
\* only when init() fails before the loop.
C14_NoExpectedFailureExitsTheLoop ==
  pc = "exited" => unhandled = "startup failed"

\* C15: init() never returns: the loop is always suspended at one of its awaits with
\* a step to take, until an exception escapes it; then the error is logged as an
\* unhandled application error and the process exits with status 1.
C15_LeavesOnlyByAnEscapingException ==
  /\ pc \in LegacyAwaits \cup {"exited"}
  /\ pc \in LegacyAwaits =>
       /\ exitCode = undefined
       /\ unhandled = NoError
       /\ ENABLED LegacyLoopStep
  /\ pc = "exited" =>
       /\ exitCode = 1
       /\ unhandled # NoError
       /\ logged = "Unhandled app error"
       /\ ~ENABLED LegacyLoopStep

C15_Witness ==
  /\ pc = "exited"
  /\ unhandled = "hasPendingActions failed"
  /\ outcome = "Failed"
  /\ exitCode = 1

\* ------------------------------------------------------------- one thread of control
Outstanding == Cardinality(inflight) + Cardinality(abandoned)
PromiseAllMembers == {"estimateGas", "getGasPrice"}

\* C16: at most one remote call is outstanding at any time, and the loop never goes
\* on while a call has produced neither a value nor an error.
C16_OneCallOutstanding ==
  /\ Outstanding <= 1
  /\ abandoned = {}

\* C16, amended: the loop waits at one await at a time, and what it waits for is one
\* call, except at the Promise.all of the older loop, where it waits for estimateGas
\* and getGasPrice together; the only calls it ever leaves behind unsettled are
\* members of a Promise.all that rejected.
C16_OneAwaitAtATime ==
  /\ Cardinality(inflight) <= 2
  /\ pc = "all" => inflight # {} /\ inflight \subseteq PromiseAllMembers
  /\ pc = "process" => inflight = {"processPendingActions"}
  /\ pc \in {"queryElse", "queryCatch"} => inflight = {"hasPendingActions"}
  /\ pc \in {"sleepElse", "sleepCatch", "exited"} => inflight = {}
  /\ abandoned \subseteq PromiseAllMembers
  /\ abandoned # {} => outcome \in {"Failed", "Idle", "Submitted"}

C16_Witness ==
  /\ pc = "sleepCatch"
  /\ caught = "estimateGas failed"
  /\ abandoned = {"getGasPrice"}
  /\ inflight = {}

\* ------------------------------------------------------------- units
\* the quote of the source that answered, in gwei
QuotedGwei ==
  IF priceEnv.primary.kind = "json" /\ ~Falsy(priceEnv.primary.data.fast)
  THEN priceEnv.primary.data.fast
  ELSE jsDiv(priceEnv.fallback.data.fast, 10)

\* C17: the price compared against the ceiling and passed to the submission is in
\* wei: a quote of g gwei, from etherchain or from ethgasstation, is compared and
\* submitted as g * 10^9.
C17_QuoteComparedAndSubmittedInWei ==
  /\ ReachedCeilingCheck => gasPrice = jsMul(QuotedGwei, GWEI_IN_WEI)
  /\ \A i \in 1..Len(sent) : sent[i].gasPrice = jsMul(QuotedGwei, GWEI_IN_WEI)

\* ------------------------------------------------------------- estimation errors
\* C18: an estimation error other than 'base fee exceeds gas limit' leaves the sizer
\* at once: the count is not halved, no further estimateGas call is made in the
\* cycle, the cycle is Failed, and no price is fetched and nothing is submitted.
C18_OtherEstimationErrorPropagates ==
  \A i \in 1..Len(probes) :
    probes[i].answer = "error" =>
      /\ i = Len(probes)
      /\ calls.estimateGas = Len(probes)
      /\ iterations = probes[i].iterations
      /\ gasEstimate = undefined
      /\ outcome = "Failed"
      /\ caught = "estimateGas failed"
      /\ calls.getGasPrice = 0 /\ calls.primary = 0 /\ calls.fallback = 0
      /\ calls.getTransactionCount = 0
      /\ calls.processPendingActions = 0
      /\ sent = <<>>

C18_Witness ==
  /\ Len(probes) = 2
  /\ probes[1].answer = "exceeds"
  /\ probes[2].answer = "error"
  /\ iterations = Halve(config.DEFAULT_ITERATIONS)
  /\ pc = "hasPendingActions"
  /\ outcome = "Failed"

\* ------------------------------------------------------------- the order of the calls
\* the calls of the cycle that act on pending work
ProcessingCalls(c) ==
  c.estimateGas + c.getGasPrice + c.getTransactionCount + c.processPendingActions

\* C19: no estimation, price fetch, nonce fetch or submission is made on a pending
\* state older than a sleep: each is made in a cycle whose own hasPendingActions()
\* answered true, with no sleep since; and the step that follows a sleep, or a
\* submission whose event says finished, is a new hasPendingActions() query, whose
\* answer true leads to the estimation.
C19_PendingStateAskedAgain ==
  [][ /\ ProcessingCalls(calls') > ProcessingCalls(calls) =>
           /\ pending = "true"
           /\ calls.hasPendingActions = 1
           /\ calls.sleep = 0
           /\ slept = 0
      /\ (calls.sleep > 0 \/ (outcome = "Submitted" /\ signal = "finished")) =>
           /\ pc = "hasPendingActions"
           /\ calls'.hasPendingActions = 1
           /\ calls'.sleep = 0
           /\ ProcessingCalls(calls') = 0
           /\ pending' \in {"true", "false", "error"}
           /\ pending' = "true" <=> pc' = "estimateGas"
    ]_vars

C19_Witness ==
  /\ signal = "finished"
  /\ outcome = "Running"
  /\ pending = "true"
  /\ calls.hasPendingActions = 1
  /\ calls.estimateGas = 1
  /\ pc = "getGasPrice"

Favourable ==
  /\ pending \in {"none", "true"}
  /\ pending = "true" => boundary >= 1
  /\ \A i \in 1..Len(probes) : probes[i].answer # "error"
  /\ PriceFetched => IsNum(gasPrice) /\ gasPrice <= CeilingInWei
  /\ caught # "getTransactionCount failed"
SubmitCall == ProcessPendingActions \/ ProcessPendingActionsFails

\* C21: if from some point on every answer is favourable, processPendingActions is
\* called again and again, and from some point on no cycle ends without that call:
\* none is Idle or Skipped, and none fails before the submission.
C21_DrainsWhileFavourable ==
  <>[]Favourable =>
    /\ []<><<SubmitCall>>_vars
    /\ <>[](/\ outcome \notin {"Idle", "Skipped"}
            /\ outcome = "Failed" => caught = "processPendingActions failed"
            /\ pc = "hasPendingActions" /\ outcome # "None" => calls.processPendingActions = 1)

C21_Witness ==
  /\ Favourable
  /\ outcome = "Submitted"
  /\ signal = "unfinished"
  /\ calls.processPendingActions = 1
  /\ Len(probes) = 3
  /\ idleStreak = 0

\* ------------------------------------------------------------- no price
\* GasNow answered without a fast or a standard price
QuoteMissing ==
  priceEnv.primary.data.fast = undefined \/ priceEnv.primary.data.standard = undefined
\* GasNow answered prices whose sum is under 1 gwei: floor(fast + standard) is 0
QuoteZero ==
  /\ ~QuoteMissing
  /\ priceEnv.primary.data.fast + priceEnv.primary.data.standard < Wei(10)

\* C22: no submission carries a missing or zero price: when the source that answered
\* gives no price for the requested speed (undefined, NaN or 0), getGasPrice throws
\* 'No gas price found', the cycle is Failed, and no nonce is fetched and nothing is
\* submitted in it.
C22_NoSubmissionWithoutAPrice ==
  /\ \A i \in 1..Len(sent) : IsNum(sent[i].gasPrice) /\ sent[i].gasPrice > 0
  /\ (PriceFetched /\ PrimaryAnswered /\ (QuoteMissing \/ QuoteZero)) =>
       /\ caught = "No gas price found"
       /\ outcome = "Failed"
       /\ gasPrice = undefined
       /\ calls.getTransactionCount = 0
       /\ calls.processPendingActions = 0
       /\ sent = <<>>

C22_Witness ==
  /\ PriceFetched
  /\ PrimaryAnswered
  /\ QuoteZero
  /\ caught = "No gas price found"
  /\ pc = "hasPendingActions"
  /\ slept = config.POLL_INTERVAL_MILLIS

\* ------------------------------------------------------------- one submission a cycle
SubmitFailed == caught = "processPendingActions failed"

\* C23: a cycle calls processPendingActions at most once, and after a call that failed
\* the next steps are the sleep of the poll interval and then a new hasPendingActions()
\* query: the call is made again only in a later cycle, behind both.
C23_OneSubmitCallPerCycle ==
  [][ /\ calls.processPendingActions <= 1
      /\ Len(sent) = calls.processPendingActions
      /\ calls'.processPendingActions > calls.processPendingActions =>
           /\ calls.processPendingActions = 0
           /\ calls.hasPendingActions = 1
           /\ calls.sleep = 0
           /\ pending = "true"
           /\ ~SubmitFailed
      /\ SubmitFailed =>
           \/ /\ pc = "sleepFailed"
              /\ pc' = "hasPendingActions"
              /\ slept' = config.POLL_INTERVAL_MILLIS
              /\ calls'.processPendingActions = calls.processPendingActions
           \/ /\ pc = "hasPendingActions"
              /\ calls.sleep = 1
              /\ slept = config.POLL_INTERVAL_MILLIS
              /\ calls'.hasPendingActions = 1
              /\ calls'.processPendingActions = 0
              /\ ~SubmitFailed'
    ]_vars

C23_Witness ==
  /\ SubmitFailed
  /\ outcome = "Failed"
  /\ Len(sent) = 1
  /\ calls.processPendingActions = 1
  /\ SleptPollInterval
====
